---------------------------- MODULE Spec2Model ----------------------------
(***************************************************************************)
(* A model of jupiter-amm-interface: the Swap -> CandidateSwap narrowing   *)
(* conversion (swap.rs), SwapMode::from_str, the account-map lookups, the  *)
(* KeyedAccount / KeyedUiAccount / Market conversions with their string    *)
(* encodings, and the ClockRef cells with their relaxed atomic stores      *)
(* (lib.rs).                                                               *)
(*                                                                         *)
(* Rust values are modelled as records.  Option and Result values carry a  *)
(* "tag" field ("None"/"Some", "Ok"/"Err"/"Panic") so that every value a   *)
(* variable can hold is a record.                                          *)
(***************************************************************************)
EXTENDS Integers, Sequences, FiniteSets, TLC

VARIABLES
    \* Swap -> CandidateSwap
    swap,           \* the Swap value handed to try_into
    candidate,      \* the Result<CandidateSwap, Error> it returned
    \* SwapMode::from_str
    s,              \* the &str argument
    mode,           \* the Result<SwapMode, Error> it returned
    \* KeyedAccount <-> KeyedUiAccount, Market
    keyed_account,      \* the KeyedAccount a caller holds
    keyed_ui_account,   \* Option: KeyedUiAccount::from(keyed_account)
    decoded,            \* the outcome of KeyedAccount::try_from(keyed_ui_account)
    market,             \* Option: Market::from(keyed_account)
    json,               \* Option: a JSON object on the wire
    parsed,             \* the Result<Market, Error> of deserializing json
    \* a batch of KeyedUiAccount records
    batch,              \* the records, in order
    outcomes,           \* outcomes[i]: what KeyedAccount::try_from(batch[i]) returned
    status,             \* "running", "done", or "panicked" once a panic unwinds
    \* account-map lookups
    account_map,        \* the AccountMap: a function from keys to accounts
    address,            \* the key looked up
    found,              \* account_map.get(address)
    data_result,        \* try_get_account_data(account_map, address)
    data_and_owner_result,  \* try_get_account_data_and_owner(account_map, address)
    \* ClockRef
    cells,          \* cells[f]: the values stored in atomic cell f, in modification order
    holder,         \* holder[h]: the thread that holds ClockRef handle h, or "none"
    view,           \* view[t][f]: the latest store to cell f that thread t has observed
    seen,           \* seen[t][f]: Option, what thread t loaded from f in its current pass
    loaded,         \* loaded[t]: how many fields thread t has loaded in its current pass
    clock,          \* the Clock last passed to from or update
    supplied,       \* every Clock passed to from or update so far
    pc,             \* 0, or the position in update of the writer's next store
    updates         \* how many update calls have returned

swapVars == <<swap, candidate>>
modeVars == <<s, mode>>
uiVars == <<keyed_account, keyed_ui_account, decoded>>
marketVars == <<market, json, parsed>>
batchVars == <<batch, outcomes, status>>
mapVars == <<account_map, address, found, data_result, data_and_owner_result>>
clockVars == <<cells, holder, view, seen, loaded, clock, supplied, pc, updates>>
vars == <<swapVars, modeVars, uiVars, marketVars, batchVars, mapVars, clockVars>>

None == [tag |-> "None"]
Some(v) == [tag |-> "Some", value |-> v]
Ok(v) == [tag |-> "Ok", value |-> v]
NotCalled == [tag |-> "NotCalled"]

(***************************************************************************)
(* Bounds of the model.                                                    *)
(***************************************************************************)
\* longest candidate_swaps vector of a DynamicV1
MaxCandidates == 2
\* longest slices vector of a RemainingAccountsInfo
MaxSlices == 1
\* longest SwapMode input, in tokens
MaxTokens == 2
\* bytes of a Pubkey (32 in solana_sdk; the base-58 arithmetic is the same)
PubkeyBytes == 2
\* longest account data, in bytes
MaxDataLen == 3
\* most records of a batch
MaxBatch == 2
\* most accounts of an account map
MaxMapSize == 2
\* most calls of ClockRef::update
MaxUpdates == 2
\* most clones of the ClockRef
MaxClones == 1

(***************************************************************************)
(* Sample values of the integer fields.  The conversions move them and     *)
(* never compute with them.                                                *)
(***************************************************************************)
U8Samples == {0, 255}
U32Samples == {0, 65536}
U64Samples == {0, 2147483647}

RECURSIVE SeqsUpTo(_, _)
SeqsUpTo(S, n) ==
    IF n = 0 THEN {<<>>}
    ELSE LET shorter == SeqsUpTo(S, n - 1)
         IN  shorter \cup {Append(q, x) : q \in {r \in shorter : Len(r) = n - 1}, x \in S}

----------------------------------------------------------------------------
(***************************************************************************)
(* swap.rs                                                                 *)
(***************************************************************************)
Side == {"Bid", "Ask"}

AccountsType == {"TransferHookA", "TransferHookB", "TickArray"}

RemainingAccountsSlice == [accounts_type : AccountsType, length : U8Samples]

RemainingAccountsInfo == [slices : SeqsUpTo(RemainingAccountsSlice, MaxSlices)]

CandidateSwap ==
    [variant : {"HumidiFi"}, swap_id : U64Samples, is_base_to_quote : BOOLEAN]
    \cup [variant : {"TesseraV"}, side : Side]
    \cup [variant : {"HumidiFiV2"}, swap_id : U64Samples, is_base_to_quote : BOOLEAN]

\* the variants of Swap that carry no data
UnitVariants ==
    {"Saber", "SaberAddDecimalsDeposit", "SaberAddDecimalsWithdraw", "TokenSwap",
     "Raydium", "Mercurial", "Meteora", "LifinityV2", "RaydiumClmm", "TokenSwapV2",
     "HeliumTreasuryManagementRedeemV0", "StakeDexStakeWrappedSol", "MeteoraDlmm",
     "RaydiumClmmV2", "RaydiumCP", "OneIntro", "PerpsV2", "PerpsV2AddLiquidity",
     "PerpsV2RemoveLiquidity", "MoonshotWrappedBuy", "MoonshotWrappedSell",
     "StabbleStableSwap", "StabbleWeightedSwap", "SolayerDelegateNoInit",
     "SolayerUndelegateNoInit", "ZeroFi", "StakeDexWithdrawWrappedSol",
     "VirtualsBuy", "VirtualsSell", "Gamma", "Woofi", "MeteoraDammV2",
     "StabbleStableSwapV2", "StabbleWeightedSwapV2", "BoopdotfunWrappedBuy",
     "BoopdotfunWrappedSell", "MeteoraDynamicBondingCurveSwapWithRemainingAccounts",
     "Aquifer", "PumpWrappedBuyV3", "PumpWrappedSellV3", "PumpSwapBuyV3",
     "PumpSwapSellV3", "JupiterLendDeposit", "JupiterLendRedeem", "RaydiumV2",
     "MeteoraDammV2WithRemainingAccounts", "Obsidian", "PumpWrappedBuyV4",
     "PumpWrappedSellV4", "CarrotIssue", "CarrotRedeem"}

Swap ==
    [variant : UnitVariants]
    \cup [variant : {"Crema", "Whirlpool", "Heaven", "AlphaQ", "BisonFi"}, a_to_b : BOOLEAN]
    \cup [variant : {"Aldrin", "AldrinV2", "Phoenix", "OpenBookV2", "Plasma", "TesseraV",
                     "Futarchy", "WhaleStreet", "Manifest"}, side : Side]
    \cup [variant : {"Invariant", "MarcoPolo", "Obric"}, x_to_y : BOOLEAN]
    \cup [variant : {"StakeDexPrefundWithdrawStakeAndDepositStake"},
          bridge_stake_seed : U32Samples]
    \cup [variant : {"SanctumS"},
          src_lst_value_calc_accs : U8Samples, dst_lst_value_calc_accs : U8Samples,
          src_lst_index : U32Samples, dst_lst_index : U32Samples]
    \cup [variant : {"SanctumSAddLiquidity", "SanctumSRemoveLiquidity"},
          lst_value_calc_accs : U8Samples, lst_index : U32Samples]
    \cup [variant : {"WhirlpoolSwapV2", "DefiTuna"}, a_to_b : BOOLEAN,
          remaining_accounts_info : {None} \cup {Some(i) : i \in RemainingAccountsInfo}]
    \cup [variant : {"SolFi", "SolFiV2"}, is_quote_to_base : BOOLEAN]
    \cup [variant : {"Perena"}, in_index : U8Samples, out_index : U8Samples]
    \cup [variant : {"MeteoraDlmmSwapV2"}, remaining_accounts_info : RemainingAccountsInfo]
    \cup [variant : {"RaydiumLaunchlabBuy", "RaydiumLaunchlabSell"},
          share_fee_rate : U64Samples]
    \cup [variant : {"GoonFi"}, is_bid : BOOLEAN, blacklist_bump : U8Samples]
    \cup [variant : {"HumidiFi", "HumidiFiV2"}, swap_id : U64Samples,
          is_base_to_quote : BOOLEAN]
    \cup [variant : {"SarosDlmm"}, swap_for_y : BOOLEAN]
    \cup [variant : {"DynamicV1"},
          candidate_swaps : SeqsUpTo(CandidateSwap, MaxCandidates)]
    \cup [variant : {"PerenaStar"}, is_mint : BOOLEAN]
    \cup [variant : {"GoonFiV2"}, is_bid : BOOLEAN]

\* impl TryInto<CandidateSwap> for Swap: the match of try_into.  The error
\* is anyhow!("Swap {self:?} is not a valid candidate swap"), which prints self.
try_into_lenient(self) ==
    CASE self.variant = "HumidiFi" ->
            Ok([variant |-> "HumidiFi", swap_id |-> self.swap_id,
                is_base_to_quote |-> self.is_base_to_quote])
      [] self.variant = "TesseraV" ->
            Ok([variant |-> "TesseraV", side |-> self.side])
      [] self.variant = "HumidiFiV2" ->
            Ok([variant |-> "HumidiFiV2", swap_id |-> self.swap_id,
                is_base_to_quote |-> self.is_base_to_quote])
      [] self.variant = "DynamicV1" /\ self.candidate_swaps # <<>> ->
            Ok(self.candidate_swaps[1])
      [] OTHER ->
            [tag |-> "Err", message |-> "is not a valid candidate swap", swap |-> self]

try_into_renamed(self) ==
    CASE self.variant = "HumidiFi" ->
            Ok([variant |-> "HumidiFi", swap_id |-> self.swap_id,
                is_base_to_quote |-> self.is_base_to_quote])
      [] self.variant = "TesseraV" ->
            Ok([variant |-> "TesseraV", side |-> self.side])
      [] self.variant = "HumidiFiV2" ->
            Ok([variant |-> "HumidiFi", swap_id |-> self.swap_id,
                is_base_to_quote |-> self.is_base_to_quote])
      [] OTHER ->
            [tag |-> "Err", message |-> "is not a valid candidate swap", swap |-> self]

try_into(self) ==
    CASE self.variant = "HumidiFi" ->
            Ok([variant |-> "HumidiFi", swap_id |-> self.swap_id,
                is_base_to_quote |-> self.is_base_to_quote])
      [] self.variant = "TesseraV" ->
            Ok([variant |-> "TesseraV", side |-> self.side])
      [] self.variant = "HumidiFiV2" ->
            Ok([variant |-> "HumidiFiV2", swap_id |-> self.swap_id,
                is_base_to_quote |-> self.is_base_to_quote])
      [] OTHER ->
            [tag |-> "Err", message |-> "is not a valid candidate swap", swap |-> self]

SwapIdle == swap = None /\ candidate = NotCalled

SwapInit == swap \in {Some(w) : w \in Swap} /\ candidate = NotCalled

\* a caller converts the Swap it holds; try_into takes self by value
TryInto ==
    /\ swap.tag = "Some"
    /\ candidate = NotCalled
    /\ candidate' = try_into(swap.value)
    /\ swap' = swap
    /\ UNCHANGED <<modeVars, uiVars, marketVars, batchVars, mapVars, clockVars>>

----------------------------------------------------------------------------
(***************************************************************************)
(* lib.rs: SwapMode                                                        *)
(***************************************************************************)
SwapMode == {"ExactIn", "ExactOut"}

from_str_default(str) ==
    CASE str = "ExactIn" -> Ok("ExactIn")
      [] str = "ExactOut" -> Ok("ExactOut")
      [] OTHER -> Ok("ExactIn")

\* impl FromStr for SwapMode
from_str(str) ==
    CASE str = "ExactIn" -> Ok("ExactIn")
      [] str = "ExactOut" -> Ok("ExactOut")
      [] OTHER -> [tag |-> "Err", message |-> str \o " is not a valid SwapMode"]

\* the input strings: every concatenation of at most MaxTokens of these
Tokens == {"Exact", "exact", "EXACT", "In", "in", "Out", "out", " "}

RECURSIVE Concat(_)
Concat(q) == IF q = <<>> THEN "" ELSE Head(q) \o Concat(Tail(q))

Strings == {Concat(q) : q \in SeqsUpTo(Tokens, MaxTokens)}

ModeIdle == s = "" /\ mode = NotCalled

ModeInit == s \in Strings /\ mode = NotCalled

FromStr ==
    /\ mode = NotCalled
    /\ mode' = from_str(s)
    /\ UNCHANGED <<s, swapVars, uiVars, marketVars, batchVars, mapVars, clockVars>>

\* the caller takes the result and parses another string
NextString ==
    /\ mode # NotCalled
    /\ s' \in Strings
    /\ mode' = NotCalled
    /\ UNCHANGED <<swapVars, uiVars, marketVars, batchVars, mapVars, clockVars>>

----------------------------------------------------------------------------
(***************************************************************************)
(* Strings that are decoded character by character are sequences of        *)
(* one-character strings.                                                  *)
(***************************************************************************)
RECURSIVE SeqsOfLen(_, _)
SeqsOfLen(S, n) ==
    IF n = 0 THEN {<<>>}
    ELSE {Append(q, x) : q \in SeqsOfLen(S, n - 1), x \in S}

RECURSIVE Pow(_, _)
Pow(b, n) == IF n = 0 THEN 1 ELSE b * Pow(b, n - 1)

\* the position of character c in alphabet A, 0 when it is not in it
IndexIn(A, c) ==
    IF \E i \in 1..Len(A) : A[i] = c THEN CHOOSE i \in 1..Len(A) : A[i] = c ELSE 0

(***************************************************************************)
(* Pubkey and its canonical string form, base 58 (Display and FromStr of   *)
(* solana_sdk::pubkey::Pubkey, which lib.rs calls)                         *)
(***************************************************************************)
KeyByteSamples == {0, 255}

Pubkey == SeqsOfLen(KeyByteSamples, PubkeyBytes)

Base58Alphabet ==
    <<"1", "2", "3", "4", "5", "6", "7", "8", "9",
      "A", "B", "C", "D", "E", "F", "G", "H", "J", "K", "L", "M", "N", "P", "Q",
      "R", "S", "T", "U", "V", "W", "X", "Y", "Z",
      "a", "b", "c", "d", "e", "f", "g", "h", "i", "j", "k", "m", "n", "o", "p",
      "q", "r", "s", "t", "u", "v", "w", "x", "y", "z">>

\* the big-endian number a byte string stands for
RECURSIVE BytesToNat(_)
BytesToNat(bytes) ==
    IF bytes = <<>> THEN 0
    ELSE BytesToNat(SubSeq(bytes, 1, Len(bytes) - 1)) * 256 + bytes[Len(bytes)]

\* the shortest big-endian byte string of a number (empty for 0)
RECURSIVE NatToBytes(_)
NatToBytes(n) == IF n = 0 THEN <<>> ELSE Append(NatToBytes(n \div 256), n % 256)

\* how many copies of z a sequence starts with
RECURSIVE Leading(_, _)
Leading(q, z) ==
    IF q # <<>> /\ Head(q) = z THEN 1 + Leading(Tail(q), z) ELSE 0

RECURSIVE Base58Digits(_)
Base58Digits(n) ==
    IF n = 0 THEN <<>>
    ELSE Append(Base58Digits(n \div 58), Base58Alphabet[(n % 58) + 1])

\* bs58 encode: a "1" for each leading zero byte, then the number's digits
bs58_encode(bytes) ==
    [i \in 1..Leading(bytes, 0) |-> "1"] \o Base58Digits(BytesToNat(bytes))

RECURSIVE Base58Value(_)
Base58Value(str) ==
    IF str = <<>> THEN 0
    ELSE Base58Value(SubSeq(str, 1, Len(str) - 1)) * 58
            + (IndexIn(Base58Alphabet, str[Len(str)]) - 1)

bs58_decode_no_leading(str) ==
    IF \E i \in 1..Len(str) : IndexIn(Base58Alphabet, str[i]) = 0
    THEN [tag |-> "Err", message |-> "Invalid"]
    ELSE Ok(NatToBytes(Base58Value(str)))

\* bs58 decode: a zero byte for each leading "1", then the number's bytes
bs58_decode(str) ==
    IF \E i \in 1..Len(str) : IndexIn(Base58Alphabet, str[i]) = 0
    THEN [tag |-> "Err", message |-> "Invalid"]
    ELSE Ok([i \in 1..Leading(str, "1") |-> 0] \o NatToBytes(Base58Value(str)))

\* MAX_BASE58_LEN: the longest string a Pubkey encodes to (44 for 32 bytes)
RECURSIVE DigitsFor(_, _)
DigitsFor(limit, n) == IF Pow(58, n) >= limit THEN n ELSE DigitsFor(limit, n + 1)

MAX_BASE58_LEN == DigitsFor(Pow(256, PubkeyBytes), 0)

\* Display for Pubkey
to_string(pubkey) == bs58_encode(pubkey)

\* FromStr for Pubkey
Pubkey_from_str(str) ==
    IF Len(str) > MAX_BASE58_LEN THEN [tag |-> "Err", message |-> "WrongSize"]
    ELSE LET bytes == bs58_decode(str)
         IN  IF bytes.tag = "Err" THEN bytes
             ELSE IF Len(bytes.value) # PubkeyBytes
                  THEN [tag |-> "Err", message |-> "WrongSize"]
                  ELSE bytes

(***************************************************************************)
(* Base 64 with padding (the Base64 encoding of UiAccount::encode and      *)
(* UiAccount::decode, which lib.rs calls)                                  *)
(***************************************************************************)
Base64Alphabet ==
    <<"A", "B", "C", "D", "E", "F", "G", "H", "I", "J", "K", "L", "M", "N", "O", "P",
      "Q", "R", "S", "T", "U", "V", "W", "X", "Y", "Z",
      "a", "b", "c", "d", "e", "f", "g", "h", "i", "j", "k", "l", "m", "n", "o", "p",
      "q", "r", "s", "t", "u", "v", "w", "x", "y", "z",
      "0", "1", "2", "3", "4", "5", "6", "7", "8", "9", "+", "/">>

B64(n) == Base64Alphabet[n + 1]

RECURSIVE base64_encode(_)
base64_encode(bytes) ==
    CASE Len(bytes) = 0 -> <<>>
      [] Len(bytes) = 1 ->
            <<B64(bytes[1] \div 4), B64((bytes[1] % 4) * 16), "=", "=">>
      [] Len(bytes) = 2 ->
            <<B64(bytes[1] \div 4),
              B64((bytes[1] % 4) * 16 + bytes[2] \div 16),
              B64((bytes[2] % 16) * 4), "=">>
      [] OTHER ->
            <<B64(bytes[1] \div 4),
              B64((bytes[1] % 4) * 16 + bytes[2] \div 16),
              B64((bytes[2] % 16) * 4 + bytes[3] \div 64),
              B64(bytes[3] % 64)>>
            \o base64_encode(SubSeq(bytes, 4, Len(bytes)))

\* the value of a base-64 character, -1 when it is not one
V64(c) == IndexIn(Base64Alphabet, c) - 1

\* decodes a string four characters at a time; padding is required, is
\* accepted in the last group only, and the bits it leaves unused must be 0
RECURSIVE base64_decode(_)
base64_decode(str) ==
    LET Invalid == [tag |-> "Err", message |-> "invalid base64"]
        a == V64(str[1])
        b == V64(str[2])
        c == V64(str[3])
        d == V64(str[4])
        last == Len(str) = 4
    IN  CASE Len(str) = 0 -> Ok(<<>>)
          [] Len(str) \in 1..3 -> Invalid
          [] OTHER ->
                IF a < 0 \/ b < 0 THEN Invalid
                ELSE IF str[3] = "=" THEN
                    IF last /\ str[4] = "=" /\ b % 16 = 0
                    THEN Ok(<<a * 4 + b \div 16>>)
                    ELSE Invalid
                ELSE IF c < 0 THEN Invalid
                ELSE IF str[4] = "=" THEN
                    IF last /\ c % 4 = 0
                    THEN Ok(<<a * 4 + b \div 16, (b % 16) * 16 + c \div 4>>)
                    ELSE Invalid
                ELSE IF d < 0 THEN Invalid
                ELSE LET rest == base64_decode(SubSeq(str, 5, Len(str)))
                     IN  IF rest.tag = "Err" THEN rest
                         ELSE Ok(<<a * 4 + b \div 16, (b % 16) * 16 + c \div 4,
                                   (c % 4) * 64 + d>> \o rest.value)

----------------------------------------------------------------------------
(***************************************************************************)
(* lib.rs: KeyedAccount, KeyedUiAccount                                    *)
(***************************************************************************)
DataByteSamples == {0, 77, 255}

AccountData == UNION {SeqsOfLen(DataByteSamples, n) : n \in 0..MaxDataLen}

\* solana_sdk::account::Account
Account ==
    [lamports : {0, 1000}, data : AccountData, owner : Pubkey,
     executable : BOOLEAN, rent_epoch : {0, 5}]

\* Option<serde_json::Value>
Params == {None, Some([t |-> "null"]), Some([t |-> "string", v |-> <<"x">>])}

KeyedAccount == [key : Pubkey, account : Account, params : Params]

\* UiAccount::encode(&key, &account, UiAccountEncoding::Base64, None, None)
UiAccount_encode(account) ==
    [lamports |-> account.lamports,
     data |-> [blob |-> base64_encode(account.data), encoding |-> "base64"],
     owner |-> to_string(account.owner),
     executable |-> account.executable,
     rent_epoch |-> account.rent_epoch,
     space |-> Some(Len(account.data))]

\* UiAccount::decode: None when the data or the owner does not decode
UiAccount_decode(ui_account) ==
    LET data == IF ui_account.data.encoding = "base64"
                THEN base64_decode(ui_account.data.blob)
                ELSE [tag |-> "Err", message |-> "not a binary encoding"]
        owner == Pubkey_from_str(ui_account.owner)
    IN  IF data.tag = "Err" \/ owner.tag = "Err" THEN None
        ELSE Some([lamports |-> ui_account.lamports,
                   data |-> data.value,
                   owner |-> owner.value,
                   executable |-> ui_account.executable,
                   rent_epoch |-> ui_account.rent_epoch])

KeyedUiAccount_from_owner_key(k) ==
    [pubkey |-> to_string(k.account.owner),
     ui_account |-> UiAccount_encode(k.account),
     params |-> k.params]

\* impl From<KeyedAccount> for KeyedUiAccount
KeyedUiAccount_from(k) ==
    [pubkey |-> to_string(k.key),
     ui_account |-> UiAccount_encode(k.account),
     params |-> k.params]

\* impl TryFrom<KeyedUiAccount> for KeyedAccount: panics when the account
\* does not decode, returns the error of Pubkey::from_str otherwise
KeyedAccount_try_from(keyed_ui) ==
    LET account == UiAccount_decode(keyed_ui.ui_account)
        key == Pubkey_from_str(keyed_ui.pubkey)
    IN  IF account.tag = "None"
        THEN [tag |-> "Panic", message |-> "Failed to decode ui_account for",
              pubkey |-> keyed_ui.pubkey]
        ELSE IF key.tag = "Err" THEN key
        ELSE Ok([key |-> key.value, account |-> account.value,
                 params |-> keyed_ui.params])

UiIdle ==
    /\ keyed_account = None
    /\ keyed_ui_account = None
    /\ decoded = NotCalled

UiInit ==
    /\ keyed_account \in {Some(k) : k \in KeyedAccount}
    /\ keyed_ui_account = None
    /\ decoded = NotCalled

\* KeyedUiAccount::from(keyed_account)
IntoUi ==
    /\ keyed_account.tag = "Some"
    /\ keyed_ui_account = None
    /\ keyed_ui_account' = Some(KeyedUiAccount_from(keyed_account.value))
    /\ UNCHANGED <<keyed_account, decoded, swapVars, modeVars, marketVars, batchVars, mapVars, clockVars>>

\* KeyedAccount::try_from(keyed_ui_account)
TryFromUi ==
    /\ keyed_ui_account.tag = "Some"
    /\ decoded = NotCalled
    /\ decoded' = KeyedAccount_try_from(keyed_ui_account.value)
    /\ UNCHANGED <<keyed_account, keyed_ui_account, swapVars, modeVars, marketVars, batchVars, mapVars, clockVars>>

----------------------------------------------------------------------------
(***************************************************************************)
(* A batch of KeyedUiAccount records, as deserialized from a collaborator's *)
(* JSON, converted one after the other by KeyedAccount::try_from.  The      *)
(* panic of try_from unwinds out of the loop that calls it.                 *)
(***************************************************************************)
\* the records a collaborator may send: well-formed or not
WireRecords ==
    [pubkey : {to_string(k) : k \in {q \in Pubkey : \A i \in 1..PubkeyBytes : q[i] = 255}}
                \cup {<<"0">>},
     ui_account :
        [lamports : {1000},
         data : [blob : {base64_encode(<<77>>), <<"T", "Q">>},
                 encoding : {"base64", "jsonParsed"}],
         owner : {to_string(k) : k \in {q \in Pubkey : \A i \in 1..PubkeyBytes : q[i] = 0}}
                    \cup {<<"l">>},
         executable : {FALSE},
         rent_epoch : {0},
         space : {Some(1)}],
     params : {None}]

BatchIdle == batch = <<>> /\ outcomes = <<>> /\ status = "idle"

BatchInit ==
    /\ batch \in SeqsUpTo(WireRecords, MaxBatch)
    /\ outcomes = [i \in 1..Len(batch) |-> NotCalled]
    /\ status = "running"

\* the records converted so far are batch[1..Cursor - 1]
Cursor ==
    IF \E i \in 1..Len(batch) : outcomes[i] = NotCalled
    THEN CHOOSE i \in 1..Len(batch) :
            outcomes[i] = NotCalled /\ \A j \in 1..(i - 1) : outcomes[j] # NotCalled
    ELSE Len(batch) + 1

\* try_from returns for the next record
ConvertRecord ==
    /\ status = "running"
    /\ Cursor <= Len(batch)
    /\ KeyedAccount_try_from(batch[Cursor]).tag # "Panic"
    /\ outcomes' = [outcomes EXCEPT ![Cursor] = KeyedAccount_try_from(batch[Cursor])]
    /\ UNCHANGED <<batch, status, swapVars, modeVars, uiVars, marketVars, mapVars, clockVars>>

\* try_from panics on the next record: the conversion of the batch unwinds
ConvertPanics ==
    /\ status = "running"
    /\ Cursor <= Len(batch)
    /\ KeyedAccount_try_from(batch[Cursor]).tag = "Panic"
    /\ status' = "panicked"
    /\ UNCHANGED <<batch, outcomes, swapVars, modeVars, uiVars, marketVars, mapVars, clockVars>>

\* every record has been converted
BatchDone ==
    /\ status = "running"
    /\ Cursor > Len(batch)
    /\ status' = "done"
    /\ UNCHANGED <<batch, outcomes, swapVars, modeVars, uiVars, marketVars, mapVars, clockVars>>

(***************************************************************************)
(* lib.rs: AccountMap and its lookups                                      *)
(***************************************************************************)
\* the accounts stored in the maps of the model
StoredAccounts ==
    {a \in Account :
        /\ a.lamports = 1000 /\ ~a.executable /\ a.rent_epoch = 0
        /\ a.data \in {<<>>, <<77>>}
        /\ \A i \in 1..PubkeyBytes : a.owner[i] = a.owner[1]}

\* type AccountMap = HashMap<Pubkey, Account, _>
AccountMap ==
    UNION {[keys -> StoredAccounts] :
            keys \in {K \in SUBSET Pubkey : Cardinality(K) <= MaxMapSize}}

NotFound(addr) ==
    [tag |-> "Err", context |-> "Could not find address: ", address |-> to_string(addr)]

\* HashMap::get
get(map, addr) == IF addr \in DOMAIN map THEN Some(map[addr]) ELSE None

try_get_account_data_or_empty(map, addr) ==
    IF get(map, addr).tag = "None" THEN Ok(<<>>) ELSE Ok(get(map, addr).value.data)

\* pub fn try_get_account_data
try_get_account_data(map, addr) ==
    LET account == get(map, addr)
    IN  IF account.tag = "None" THEN NotFound(addr) ELSE Ok(account.value.data)

\* pub fn try_get_account_data_and_owner
try_get_account_data_and_owner(map, addr) ==
    LET account == get(map, addr)
    IN  IF account.tag = "None" THEN NotFound(addr)
        ELSE Ok([data |-> account.value.data, owner |-> account.value.owner])

MapIdle ==
    /\ account_map = <<>>
    /\ address = <<>>
    /\ found = NotCalled
    /\ data_result = NotCalled
    /\ data_and_owner_result = NotCalled

MapInit ==
    /\ account_map \in AccountMap
    /\ address \in Pubkey
    /\ found = NotCalled
    /\ data_result = NotCalled
    /\ data_and_owner_result = NotCalled

\* account_map.get(&address)
Get ==
    /\ address \in Pubkey
    /\ found = NotCalled
    /\ found' = get(account_map, address)
    /\ UNCHANGED <<account_map, address, data_result, data_and_owner_result,
                   swapVars, modeVars, uiVars, marketVars, batchVars, clockVars>>

\* try_get_account_data(&account_map, &address)
TryGetAccountData ==
    /\ address \in Pubkey
    /\ data_result = NotCalled
    /\ data_result' = try_get_account_data(account_map, address)
    /\ UNCHANGED <<account_map, address, found, data_and_owner_result,
                   swapVars, modeVars, uiVars, marketVars, batchVars, clockVars>>

\* try_get_account_data_and_owner(&account_map, &address)
TryGetAccountDataAndOwner ==
    /\ address \in Pubkey
    /\ data_and_owner_result = NotCalled
    /\ data_and_owner_result' = try_get_account_data_and_owner(account_map, address)
    /\ UNCHANGED <<account_map, address, found, data_result,
                   swapVars, modeVars, uiVars, marketVars, batchVars, clockVars>>

(***************************************************************************)
(* lib.rs: ClockRef.  Each of its five fields is an Arc of an atomic cell,  *)
(* stored to and loaded from with Ordering::Relaxed.  A relaxed cell has a  *)
(* modification order of its own, cells[f]; a load by thread t returns any  *)
(* store of that order not older than the latest one t has observed in that *)
(* cell, view[t][f].  Nothing orders the stores to one cell with those to   *)
(* another but a happens-before edge, which here is program order within a  *)
(* thread and the hand-over of a clone to a thread.                         *)
(***************************************************************************)
Fields == {"slot", "epoch_start_timestamp", "epoch", "leader_schedule_epoch",
           "unix_timestamp"}

\* solana_sdk::clock::Clock: two successive readings
Clock ==
    {[slot |-> 10, epoch_start_timestamp |-> 900, epoch |-> 2,
      leader_schedule_epoch |-> 3, unix_timestamp |-> 1000],
     [slot |-> 11, epoch_start_timestamp |-> 900, epoch |-> 2,
      leader_schedule_epoch |-> 3, unix_timestamp |-> 1001]}

Threads == {"writer", "reader"}

Handles == 0..MaxClones

\* the order in which update stores the fields
StoreOrder ==
    <<"epoch", "slot", "unix_timestamp", "epoch_start_timestamp",
      "leader_schedule_epoch">>

\* the order in which a thread that reads the whole clock loads the fields
LoadOrder ==
    <<"slot", "epoch_start_timestamp", "epoch", "leader_schedule_epoch",
      "unix_timestamp">>

Swapped(f, g, h) == IF f = g THEN h ELSE IF f = h THEN g ELSE f

update_value_swapped(clk, f) == clk[Swapped(f, "slot", "epoch")]

\* ClockRef::update: what it stores in the cell of field f
update_value(clk, f) == clk[f]

from_value_swapped(clk, f) == clk[Swapped(f, "epoch_start_timestamp", "unix_timestamp")]

\* impl From<Clock> for ClockRef: what the new cell of field f holds
from_value(clk, f) == clk[f]

Last(q) == q[Len(q)]

Max(a, b) == IF a >= b THEN a ELSE b

ClockIdle ==
    /\ cells = [f \in Fields |-> <<>>]
    /\ holder = [h \in Handles |-> "none"]
    /\ view = [t \in Threads |-> [f \in Fields |-> 0]]
    /\ seen = [t \in Threads |-> [f \in Fields |-> None]]
    /\ loaded = [t \in Threads |-> 0]
    /\ clock = None
    /\ supplied = {}
    /\ pc = 0
    /\ updates = 0

\* the writer thread has built ClockRef::from(c), handle 0
ClockInit ==
    \E c \in Clock :
        /\ cells = [f \in Fields |-> <<from_value(c, f)>>]
        /\ holder = [h \in Handles |-> IF h = 0 THEN "writer" ELSE "none"]
        /\ view = [t \in Threads |-> [f \in Fields |-> IF t = "writer" THEN 1 ELSE 0]]
        /\ seen = [t \in Threads |-> [f \in Fields |-> None]]
        /\ loaded = [t \in Threads |-> 0]
        /\ clock = Some(c)
        /\ supplied = {c}
        /\ pc = 0
        /\ updates = 0

\* #[derive(Clone)]: the thread holding handle h clones it between two of
\* its calls, each Arc of the clone pointing at the cell of the original, and
\* hands the clone to thread t, which from then on has observed what the
\* cloning thread had
CloneRef(h, t) ==
    /\ holder[h] # "none"
    /\ holder[h] = "writer" => pc = 0
    /\ loaded[holder[h]] = 0
    /\ \E h2 \in Handles :
        /\ holder[h2] = "none"
        /\ \A h3 \in Handles : holder[h3] = "none" => h2 <= h3
        /\ holder' = [holder EXCEPT ![h2] = t]
    /\ view' = [view EXCEPT ![t] =
                    [f \in Fields |-> Max(view[t][f], view[holder[h]][f])]]
    /\ UNCHANGED <<cells, seen, loaded, clock, supplied, pc, updates,
                   swapVars, modeVars, uiVars, marketVars, batchVars, mapVars>>

\* the writer, between two passes over the fields, calls update(c) through
\* handle 0
UpdateCall(c) ==
    /\ pc = 0
    /\ loaded["writer"] = 0
    /\ updates < MaxUpdates
    /\ pc' = 1
    /\ clock' = Some(c)
    /\ supplied' = supplied \cup {c}
    /\ UNCHANGED <<cells, holder, view, seen, loaded, updates,
                   swapVars, modeVars, uiVars, marketVars, batchVars, mapVars>>

\* the next store of update; after the fifth, update returns
UpdateStore ==
    /\ pc \in 1..Len(StoreOrder)
    /\ LET f == StoreOrder[pc]
       IN  /\ cells' = [cells EXCEPT ![f] = Append(@, update_value(clock.value, f))]
           /\ view' = [view EXCEPT !["writer"][f] = Len(cells[f]) + 1]
    /\ pc' = IF pc = Len(StoreOrder) THEN 0 ELSE pc + 1
    /\ updates' = IF pc = Len(StoreOrder) THEN updates + 1 ELSE updates
    /\ UNCHANGED <<holder, seen, loaded, clock, supplied,
                   swapVars, modeVars, uiVars, marketVars, batchVars, mapVars>>

\* the thread holding handle h loads, relaxed, the next field of its pass
\* (the writer only between two calls of update)
Load(h) ==
    LET t == holder[h]
        f == LoadOrder[loaded[t] + 1]
    IN  /\ t # "none"
        /\ t = "writer" => pc = 0
        /\ loaded[t] < Len(LoadOrder)
        /\ \E i \in view[t][f]..Len(cells[f]) :
            /\ view' = [view EXCEPT ![t][f] = i]
            /\ seen' = [seen EXCEPT ![t][f] = Some(cells[f][i])]
        /\ loaded' = [loaded EXCEPT ![t] = @ + 1]
        /\ UNCHANGED <<cells, holder, clock, supplied, pc, updates,
                       swapVars, modeVars, uiVars, marketVars, batchVars, mapVars>>

\* thread t, having loaded all five fields, starts another pass
NextPass(t) ==
    /\ loaded[t] = Len(LoadOrder)
    /\ loaded' = [loaded EXCEPT ![t] = 0]
    /\ seen' = [seen EXCEPT ![t] = [f \in Fields |-> None]]
    /\ UNCHANGED <<cells, holder, view, clock, supplied, pc, updates,
                   swapVars, modeVars, uiVars, marketVars, batchVars, mapVars>>

(***************************************************************************)
(* lib.rs: Market, and its JSON form.  A JSON object is a function from    *)
(* its field names to JSON values; a JSON value is a record with its type  *)
(* in t and its content in v (string), n (number) or b (boolean).           *)
(***************************************************************************)
Market_from_key_as_owner(k) ==
    [pubkey |-> k.key, owner |-> k.key, params |-> k.params]

\* impl From<KeyedAccount> for Market
Market_from(k) ==
    [pubkey |-> k.key, owner |-> k.account.owner, params |-> k.params]

JNull == [t |-> "null"]
JString(chars) == [t |-> "string", v |-> chars]
JNumber(n) == [t |-> "number", n |-> n]
JBool(b) == [t |-> "bool", b |-> b]

\* serde/mod.rs: parse_value
parse_value(value) ==
    LET r == Pubkey_from_str(value)
    IN  IF r.tag = "Err"
        THEN [tag |-> "Err", message |-> "Parse error: " \o r.message]
        ELSE r

\* serde_utils/field_as_string.rs: serialize
field_as_string_serialize(value) == JString(to_string(value))

\* serde_utils/field_as_string.rs: deserialize
field_as_string_deserialize(jv) ==
    IF jv.t # "string"
    THEN [tag |-> "Err", message |-> "invalid type, expected a borrowed string"]
    ELSE parse_value(jv.v)

\* #[derive(Serialize)] of Market: Option<Value> writes None as null and
\* Some(v) as v
Market_serialize(m) ==
    [n \in {"pubkey", "owner", "params"} |->
        CASE n = "pubkey" -> field_as_string_serialize(m.pubkey)
          [] n = "owner" -> field_as_string_serialize(m.owner)
          [] OTHER -> IF m.params.tag = "None" THEN JNull ELSE m.params.value]

\* #[derive(Deserialize)] of Market: pubkey and owner are required, params
\* is None when absent or null, any other field is skipped.  (When several
\* fields are in error, the error of the first one in the input is returned;
\* here, that of pubkey.)
Market_deserialize(obj) ==
    LET Field(n) ==
            IF n \notin DOMAIN obj
            THEN [tag |-> "Err", message |-> "missing field " \o n]
            ELSE field_as_string_deserialize(obj[n])
        pubkey == Field("pubkey")
        owner == Field("owner")
        params == IF "params" \notin DOMAIN obj \/ obj["params"] = JNull
                  THEN None
                  ELSE Some(obj["params"])
    IN  IF pubkey.tag = "Err" THEN pubkey
        ELSE IF owner.tag = "Err" THEN owner
        ELSE Ok([pubkey |-> pubkey.value, owner |-> owner.value, params |-> params])

\* what a JSON object received from a collaborator may hold for a key, as
\* an Option: nothing, the string of a key, or something that is no key
WireKeys ==
    {None} \cup {Some(JString(to_string(k))) : k \in Pubkey}
           \cup {Some(JString(<<"0">>)), Some(JString(<<"1">>)), Some(JNumber(7))}

WireParams == {None, Some(JNull), Some(JString(<<"x">>))}

\* the object with these fields and, with extras, three fields of an account
JsonObject(pubkey, owner, params, extras) ==
    LET names == (IF pubkey.tag = "Some" THEN {"pubkey"} ELSE {})
                 \cup (IF owner.tag = "Some" THEN {"owner"} ELSE {})
                 \cup (IF params.tag = "Some" THEN {"params"} ELSE {})
                 \cup (IF extras THEN {"lamports", "executable", "rentEpoch"} ELSE {})
    IN  [n \in names |->
            CASE n = "pubkey" -> pubkey.value
              [] n = "owner" -> owner.value
              [] n = "params" -> params.value
              [] n = "lamports" -> JNumber(1000)
              [] n = "executable" -> JBool(FALSE)
              [] OTHER -> JNumber(0)]

JsonObjects ==
    {JsonObject(pk, ow, pa, ex) :
        pk \in WireKeys, ow \in WireKeys, pa \in WireParams, ex \in BOOLEAN}

\* either a caller holds a KeyedAccount, or a JSON object will be received
MarketInit ==
    /\ keyed_account \in {None} \cup {Some(k) : k \in KeyedAccount}
    /\ keyed_ui_account = None
    /\ decoded = NotCalled
    /\ market = None
    /\ json = None
    /\ parsed = NotCalled

\* Market::from(keyed_account)
MarketFrom ==
    /\ keyed_account.tag = "Some"
    /\ market = None
    /\ market' = Some(Market_from(keyed_account.value))
    /\ UNCHANGED <<json, parsed, uiVars, swapVars, modeVars, batchVars, mapVars, clockVars>>

\* serde_json::to_string(&market)
Serialize ==
    /\ market.tag = "Some"
    /\ json = None
    /\ json' = Some(Market_serialize(market.value))
    /\ UNCHANGED <<market, parsed, uiVars, swapVars, modeVars, batchVars, mapVars, clockVars>>

\* a JSON object arrives from a collaborator
ReceiveJson ==
    /\ keyed_account = None
    /\ json = None
    /\ json' \in {Some(o) : o \in JsonObjects}
    /\ UNCHANGED <<market, parsed, uiVars, swapVars, modeVars, batchVars, mapVars, clockVars>>

\* serde_json::from_str::<Market>(json)
Deserialize ==
    /\ json.tag = "Some"
    /\ parsed = NotCalled
    /\ parsed' = Market_deserialize(json.value)
    /\ UNCHANGED <<market, json, uiVars, swapVars, modeVars, batchVars, mapVars, clockVars>>

MarketIdle == market = None /\ json = None /\ parsed = NotCalled

InitSwap == SwapInit /\ ModeIdle /\ UiIdle /\ MarketIdle /\ BatchIdle /\ MapIdle /\ ClockIdle

NextSwap == TryInto

SpecSwap == InitSwap /\ [][NextSwap]_vars

InitMode == ModeInit /\ SwapIdle /\ UiIdle /\ MarketIdle /\ BatchIdle /\ MapIdle /\ ClockIdle

NextMode == FromStr \/ NextString

SpecMode == InitMode /\ [][NextMode]_vars

InitUi == UiInit /\ SwapIdle /\ ModeIdle /\ MarketIdle /\ BatchIdle /\ MapIdle /\ ClockIdle

NextUi == IntoUi \/ TryFromUi

SpecUi == InitUi /\ [][NextUi]_vars

InitMarket == MarketInit /\ SwapIdle /\ ModeIdle /\ BatchIdle /\ MapIdle /\ ClockIdle

NextMarket == MarketFrom \/ Serialize \/ ReceiveJson \/ Deserialize

SpecMarket == InitMarket /\ [][NextMarket]_vars

InitBatch == BatchInit /\ SwapIdle /\ ModeIdle /\ UiIdle /\ MarketIdle /\ MapIdle /\ ClockIdle

NextBatch == ConvertRecord \/ ConvertPanics \/ BatchDone

SpecBatch == InitBatch /\ [][NextBatch]_vars

InitMap == MapInit /\ SwapIdle /\ ModeIdle /\ UiIdle /\ MarketIdle /\ BatchIdle /\ ClockIdle

NextMap == Get \/ TryGetAccountData \/ TryGetAccountDataAndOwner

SpecMap == InitMap /\ [][NextMap]_vars

InitClock ==
    ClockInit /\ SwapIdle /\ ModeIdle /\ UiIdle /\ MarketIdle /\ BatchIdle /\ MapIdle

NextClock ==
    \/ \E h \in Handles, t \in Threads : CloneRef(h, t)
    \/ \E c \in Clock : UpdateCall(c)
    \/ UpdateStore
    \/ \E h \in Handles : Load(h)
    \/ \E t \in Threads : NextPass(t)

SpecClock == InitClock /\ [][NextClock]_vars

----------------------------------------------------------------------------
(***************************************************************************)
(* Swap -> CandidateSwap                                                   *)
(***************************************************************************)
\* the variants CandidateSwap has
CandidateVariants == {c.variant : c \in CandidateSwap}

Converted == swap.tag = "Some" /\ candidate # NotCalled

\* C1: a Swap whose variant is not HumidiFi, TesseraV or HumidiFiV2 (DynamicV1
\* included, whatever candidate_swaps it carries) converts to an error, never
\* to a CandidateSwap value.
C1_NonCandidateFails ==
    (Converted /\ swap.value.variant \notin CandidateVariants)
        => (candidate.tag = "Err" /\ candidate.tag # "Ok")

\* a DynamicV1 that carries candidates has been converted, to an error
C1_Witness ==
    /\ Converted
    /\ swap.value.variant = "DynamicV1"
    /\ Len(swap.value.candidate_swaps) = MaxCandidates
    /\ candidate.tag = "Err"

\* C2: a Swap whose variant is HumidiFi, TesseraV or HumidiFiV2 converts to
\* the CandidateSwap variant of the same name, with swap_id, is_base_to_quote
\* and side equal to those of the Swap.
C2_CandidatePreserved ==
    (Converted /\ swap.value.variant \in CandidateVariants)
        => /\ candidate.tag = "Ok"
           /\ candidate.value \in CandidateSwap
           /\ candidate.value.variant = swap.value.variant
           /\ DOMAIN candidate.value = DOMAIN swap.value
           /\ \A f \in DOMAIN swap.value : candidate.value[f] = swap.value[f]

\* a HumidiFiV2 with a large swap_id has been converted
C2_Witness ==
    /\ Converted
    /\ swap.value.variant = "HumidiFiV2"
    /\ swap.value.swap_id = 2147483647
    /\ swap.value.is_base_to_quote
    /\ candidate.tag = "Ok"

----------------------------------------------------------------------------
(***************************************************************************)
(* SwapMode::from_str                                                      *)
(***************************************************************************)
\* C8: from_str succeeds exactly for "ExactIn" (giving ExactIn) and "ExactOut"
\* (giving ExactOut); every other string, "exactin" and "" included, gives an
\* error.
C8_FromStrExact ==
    mode # NotCalled
        => /\ (s = "ExactIn" => mode = Ok("ExactIn"))
           /\ (s = "ExactOut" => mode = Ok("ExactOut"))
           /\ (s \notin {"ExactIn", "ExactOut"} => mode.tag = "Err")

\* the lower-case spelling has been parsed, and rejected
C8_Witness == s = "exactin" /\ mode.tag = "Err"

----------------------------------------------------------------------------
(***************************************************************************)
(* KeyedAccount -> KeyedUiAccount -> KeyedAccount                          *)
(***************************************************************************)
\* C5: converting a KeyedAccount to KeyedUiAccount and back succeeds and
\* gives a KeyedAccount with the same key, account data bytes, owner and
\* params.
C5_RoundTrip ==
    (keyed_account.tag = "Some" /\ keyed_ui_account.tag = "Some"
            /\ decoded # NotCalled)
        => /\ decoded.tag = "Ok"
           /\ decoded.value.key = keyed_account.value.key
           /\ decoded.value.account.data = keyed_account.value.account.data
           /\ decoded.value.account.owner = keyed_account.value.account.owner
           /\ decoded.value.params = keyed_account.value.params

\* an account whose data needs base-64 padding, under a key and an owner
\* that start with a zero byte, has made the round trip
C5_Witness ==
    /\ decoded.tag = "Ok"
    /\ keyed_account.tag = "Some"
    /\ Len(keyed_account.value.account.data) = 2
    /\ keyed_account.value.key[1] = 0
    /\ keyed_account.value.key # keyed_account.value.account.owner
    /\ keyed_account.value.params.tag = "Some"

----------------------------------------------------------------------------
(***************************************************************************)
(* Market                                                                  *)
(***************************************************************************)
Derived == keyed_account.tag = "Some" /\ market.tag = "Some"

\* C9 as stated: Market::from(k) has pubkey = k.key, owner = k.account.owner
\* and params = k.params, and drops only the raw account bytes of k: every
\* other field of k.account is kept.
C9_DropsOnlyData ==
    Derived
        => /\ market.value.pubkey = keyed_account.value.key
           /\ market.value.owner = keyed_account.value.account.owner
           /\ market.value.params = keyed_account.value.params
           /\ \A f \in DOMAIN keyed_account.value.account \ {"data"} :
                /\ f \in DOMAIN market.value
                /\ market.value[f] = keyed_account.value.account[f]

\* C9 as amended: Market::from(k) has pubkey = k.key, owner = k.account.owner
\* and params = k.params and nothing else: it drops the data bytes of
\* k.account and also its lamports, executable and rent_epoch.
C9_MarketFrom ==
    Derived
        => /\ market.value.pubkey = keyed_account.value.key
           /\ market.value.owner = keyed_account.value.account.owner
           /\ market.value.params = keyed_account.value.params
           /\ DOMAIN market.value = {"pubkey", "owner", "params"}
           /\ {"data", "lamports", "executable", "rent_epoch"}
                \cap DOMAIN market.value = {}

\* a Market has been derived from an account with data, lamports and a
\* rent epoch, whose owner is not its key
C9_Witness ==
    /\ Derived
    /\ keyed_account.value.key # keyed_account.value.account.owner
    /\ keyed_account.value.account.data # <<>>
    /\ keyed_account.value.account.lamports = 1000
    /\ keyed_account.value.account.rent_epoch = 5
    /\ keyed_account.value.account.executable

\* the JSON object on the wire has the strings of keys p and o as its
\* pubkey and owner
Canonical(p, o) ==
    /\ json.tag = "Some"
    /\ {"pubkey", "owner"} \subseteq DOMAIN json.value
    /\ json.value["pubkey"] = JString(to_string(p))
    /\ json.value["owner"] = JString(to_string(o))

\* deserializing an object with the strings of two keys gives those keys,
\* whatever other fields it has, and params = None when it has no params
DeserializesKeys ==
    \A p, o \in Pubkey :
        (Canonical(p, o) /\ parsed # NotCalled)
            => /\ parsed.tag = "Ok"
               /\ parsed.value.pubkey = p
               /\ parsed.value.owner = o
               /\ ("params" \notin DOMAIN json.value => parsed.value.params = None)

\* serializing writes pubkey and owner as their strings
SerializesKeys ==
    (market.tag = "Some" /\ json.tag = "Some")
        => Canonical(market.value.pubkey, market.value.owner)

Serialized == market.tag = "Some" /\ json.tag = "Some" /\ parsed # NotCalled

C10_Witness ==
    /\ keyed_account = None
    /\ parsed.tag = "Ok"
    /\ DOMAIN json.value = {"pubkey", "owner", "lamports", "executable", "rentEpoch"}
    /\ parsed.value.pubkey[1] = 0
    /\ parsed.value.owner # parsed.value.pubkey

----------------------------------------------------------------------------
(***************************************************************************)
(* A batch of KeyedUiAccount records                                       *)
(***************************************************************************)
\* C6: a record whose account payload fails to decode fails for itself
\* only: when the conversion of the batch has ended, every record has an
\* outcome of its own, Ok or Err, whatever the other records held.
C6_FailureConfined ==
    status # "running"
        => \A i \in 1..Len(batch) : outcomes[i].tag \in {"Ok", "Err"}

----------------------------------------------------------------------------
(***************************************************************************)
(* Account-map lookups                                                     *)
(***************************************************************************)
C7_Lookups ==
    /\ found # NotCalled =>
            found = IF address \in DOMAIN account_map
                    THEN Some(account_map[address]) ELSE None
    /\ (data_result # NotCalled /\ address \notin DOMAIN account_map) =>
            /\ data_result.tag = "Err"
            /\ data_result.context = "Could not find address: "
            /\ data_result.address = to_string(address)
    /\ (data_and_owner_result # NotCalled /\ address \notin DOMAIN account_map) =>
            /\ data_and_owner_result.tag = "Err"
            /\ data_and_owner_result.context = "Could not find address: "
            /\ data_and_owner_result.address = to_string(address)
    /\ (data_result # NotCalled /\ address \in DOMAIN account_map) =>
            data_result = Ok(account_map[address].data)
    /\ (data_and_owner_result # NotCalled /\ address \in DOMAIN account_map) =>
            data_and_owner_result = Ok([data |-> account_map[address].data,
                                        owner |-> account_map[address].owner])

\* C7: a lookup of a key the map does not hold gives None on the optional
\* form and, on try_get_account_data and try_get_account_data_and_owner, a
\* not-found error naming the key; a lookup of a key it holds gives that
\* account's data (and owner) and no error; no lookup changes the map.
C7_LookupContract == []C7_Lookups /\ [][account_map' = account_map]_vars

\* all three forms have looked up a key that a map of two other accounts
\* does not hold
C7_Witness ==
    /\ found = None
    /\ data_result.tag = "Err"
    /\ data_and_owner_result.tag = "Err"
    /\ Cardinality(DOMAIN account_map) = MaxMapSize
    /\ address \notin DOMAIN account_map

----------------------------------------------------------------------------
(***************************************************************************)
(* ClockRef                                                                *)
(***************************************************************************)
\* thread t has observed every store made so far: it is the writer, or it
\* was handed its clone after them
UpToDate(t) == \A f \in Fields : view[t][f] = Len(cells[f])

\* thread t's pass over the fields, once it has loaded all five
Snapshot(t) == [f \in Fields |-> seen[t][f].value]

\* between two calls of update, each cell holds the last reading's value
CellsHoldLast == pc = 0 => \A f \in Fields : Last(cells[f]) = clock.value[f]

\* a load by a thread that has observed every store of the completed calls
\* returns the last reading's value of the field it loads
LoadsLast ==
    \A t \in Threads :
        (loaded'[t] = loaded[t] + 1 /\ pc = 0 /\ UpToDate(t))
            => seen'[t][LoadOrder[loaded'[t]]]
                    = Some(clock.value[LoadOrder[loaded'[t]]])

PerFieldAtomic ==
    \A t \in Threads, f \in Fields :
        seen[t][f].tag = "Some" => \E c \in supplied : seen[t][f].value = c[f]

\* a step stores to one cell at most
OneCellPerStep == Cardinality({f \in Fields : cells'[f] # cells[f]}) <= 1

\* C4: update is five independent stores: with a reader running beside the
\* writer, every load of a field returns a value that the constructing
\* reading or some update's reading supplied for that field, while the five
\* fields loaded together need not come from one reading (C4_Witness).
C4_PerFieldOnly == []PerFieldAtomic /\ [][OneCellPerStep]_vars

\* the reader has loaded five fields that no reading passed to from or
\* update holds together: fields of the old reading with fields of the new
C4_Witness ==
    /\ loaded["reader"] = Len(LoadOrder)
    /\ Snapshot("reader") \notin supplied
    /\ \A f \in Fields : \E c \in supplied : Snapshot("reader")[f] = c[f]

=============================================================================
